---- MODULE Spec2Model ----
(***************************************************************************)
(* Model of 0x02-redis_basic/exercise.py: the Cache facade over a Redis    *)
(* database, the count_calls and call_history decorators around            *)
(* Cache.store, and the readers get / get_str / get_int.                   *)
(*                                                                         *)
(* Text is a sequence of Unicode code points, a byte string a sequence of  *)
(* numbers 0..255.  Python values are records tagged by their type.        *)
(***************************************************************************)
EXTENDS Integers, Sequences, FiniteSets, TLC

\* ------------------------------------------------------------------ bounds
\* store calls started over a whole run
MaxCalls == 2
\* Redis commands that fail over a whole run
MaxFails == 1
\* facades constructed after the first one
MaxInits == 1
\* longest text / byte string of the round-trip inputs
MaxLen == 2
\* integers of the round-trip inputs are -MaxInt..MaxInt
MaxInt == 12
\* floats of the round-trip inputs are h/2 for h in -MaxHalves..MaxHalves
MaxHalves == 3

\* ------------------------------------------------------------ Python values
PyStr(s) == [t |-> "str", v |-> s]
PyBytes(b) == [t |-> "bytes", v |-> b]
PyInt(n) == [t |-> "int", v |-> n]
\* a float is modelled by the number of halves it holds: h stands for h/2
PyFloat(h) == [t |-> "float", v |-> h]
PyNone == [t |-> "None"]
PyRaise(e) == [t |-> "raise", v |-> e]

\* --------------------------------------------------------------- text codec
RECURSIVE Digits(_)
Digits(n) == IF n < 10 THEN <<48 + n>> ELSE Digits(n \div 10) \o <<48 + (n % 10)>>

\* str(n) / repr(n) of an int: decimal digits, "-" in front of a negative
IntToText(n) == IF n < 0 THEN <<45>> \o Digits(0 - n) ELSE Digits(n)

\* repr of a float holding h halves: "1.5", "-0.5", "2.0"
FloatToText(h) ==
  LET a == IF h < 0 THEN 0 - h ELSE h
  IN (IF h < 0 THEN <<45>> ELSE <<>>) \o Digits(a \div 2) \o <<46>>
       \o (IF a % 2 = 0 THEN <<48>> ELSE <<53>>)

\* UTF-8 of one code point
Utf8Char(c) ==
  IF c < 128 THEN <<c>>
  ELSE IF c < 2048 THEN <<192 + (c \div 64), 128 + (c % 64)>>
  ELSE IF c < 65536
    THEN <<224 + (c \div 4096), 128 + ((c \div 64) % 64), 128 + (c % 64)>>
  ELSE <<240 + (c \div 262144), 128 + ((c \div 4096) % 64),
         128 + ((c \div 64) % 64), 128 + (c % 64)>>

\* s.encode('utf-8')
RECURSIVE Utf8Encode(_)
Utf8Encode(s) == IF s = <<>> THEN <<>> ELSE Utf8Char(Head(s)) \o Utf8Encode(Tail(s))

IsCont(b) == b >= 128 /\ b <= 191

\* b.decode('utf-8'), strict: [ok |-> TRUE, v |-> text] or [ok |-> FALSE]
RECURSIVE Utf8Decode(_)
Utf8Decode(b) ==
  IF b = <<>> THEN [ok |-> TRUE, v |-> <<>>]
  ELSE
    LET h == b[1]
        n == IF h < 128 THEN 1
             ELSE IF h >= 194 /\ h <= 223 THEN 2
             ELSE IF h >= 224 /\ h <= 239 THEN 3
             ELSE IF h >= 240 /\ h <= 244 THEN 4
             ELSE 0
        wellFormed == /\ n > 0
                      /\ Len(b) >= n
                      /\ \A i \in 2..n : IsCont(b[i])
        c == CASE n = 1 -> h
               [] n = 2 -> (h - 192) * 64 + (b[2] - 128)
               [] n = 3 -> (h - 224) * 4096 + (b[2] - 128) * 64 + (b[3] - 128)
               [] OTHER -> (h - 240) * 262144 + (b[2] - 128) * 4096
                             + (b[3] - 128) * 64 + (b[4] - 128)
        \* no overlong form, no surrogate, nothing above U+10FFFF
        scalar == CASE n = 1 -> TRUE
                    [] n = 2 -> c >= 128
                    [] n = 3 -> c >= 2048 /\ ~(c >= 55296 /\ c <= 57343)
                    [] OTHER -> c >= 65536 /\ c <= 1114111
    IN IF ~wellFormed THEN [ok |-> FALSE]
       ELSE IF ~scalar THEN [ok |-> FALSE]
       ELSE LET rest == Utf8Decode(SubSeq(b, n + 1, Len(b)))
            IN IF rest.ok THEN [ok |-> TRUE, v |-> <<c>> \o rest.v]
               ELSE [ok |-> FALSE]

IsSpace(b) == b = 32 \/ (b >= 9 /\ b <= 13)
IsDigit(b) == b >= 48 /\ b <= 57

RECURSIVE LStrip(_)
LStrip(b) == IF b # <<>> /\ IsSpace(Head(b)) THEN LStrip(Tail(b)) ELSE b

RECURSIVE RStrip(_)
RStrip(b) ==
  IF b # <<>> /\ IsSpace(b[Len(b)]) THEN RStrip(SubSeq(b, 1, Len(b) - 1)) ELSE b

\* value of a run of decimal digits with single underscores between digits
RECURSIVE DigitsValue(_, _)
DigitsValue(b, acc) ==
  IF b = <<>> THEN acc
  ELSE IF Head(b) = 95 THEN DigitsValue(Tail(b), acc)
  ELSE DigitsValue(Tail(b), acc * 10 + (Head(b) - 48))

DigitsOk(b) ==
  /\ b # <<>>
  /\ IsDigit(b[1])
  /\ IsDigit(b[Len(b)])
  /\ \A i \in 1..Len(b) : IsDigit(b[i]) \/ b[i] = 95
  /\ \A i \in 1..(Len(b) - 1) : ~(b[i] = 95 /\ b[i + 1] = 95)

\* int(b) on a byte string, base 10: surrounding whitespace is dropped, one
\* sign is allowed; [ok |-> TRUE, v |-> n] or [ok |-> FALSE] (ValueError)
ParseInt(b) ==
  LET s == RStrip(LStrip(b))
      signed == s # <<>> /\ (s[1] = 45 \/ s[1] = 43)
      body == IF signed THEN Tail(s) ELSE s
  IN IF ~DigitsOk(body) THEN [ok |-> FALSE]
     ELSE [ok |-> TRUE,
           v |-> IF signed /\ s[1] = 45 THEN 0 - DigitsValue(body, 0)
                 ELSE DigitsValue(body, 0)]

HexDigit(n) == IF n < 10 THEN 48 + n ELSE 87 + n

\* one character inside a quoted Python literal; q is the quote in use
EscapeChar(c, q, isBytes) ==
  IF c = 92 THEN <<92, 92>>
  ELSE IF c = q THEN <<92, q>>
  ELSE IF c = 9 THEN <<92, 116>>
  ELSE IF c = 10 THEN <<92, 110>>
  ELSE IF c = 13 THEN <<92, 114>>
  ELSE IF c < 32 \/ c = 127 \/ (c >= 128 /\ (isBytes \/ c <= 160 \/ c = 173))
    THEN <<92, 120, HexDigit(c \div 16), HexDigit(c % 16)>>
  ELSE <<c>>

RECURSIVE EscapeAll(_, _, _)
EscapeAll(s, q, isBytes) ==
  IF s = <<>> THEN <<>>
  ELSE EscapeChar(Head(s), q, isBytes) \o EscapeAll(Tail(s), q, isBytes)

\* the quote repr picks: ' unless the text holds a ' and no "
QuoteOf(s) ==
  IF (\E i \in 1..Len(s) : s[i] = 39) /\ ~(\E i \in 1..Len(s) : s[i] = 34)
  THEN 34 ELSE 39

\* repr(x) as text, for code points up to U+00FF
Repr(x) ==
  CASE x.t = "str" ->
         <<QuoteOf(x.v)>> \o EscapeAll(x.v, QuoteOf(x.v), FALSE) \o <<QuoteOf(x.v)>>
    [] x.t = "bytes" ->
         <<98, QuoteOf(x.v)>> \o EscapeAll(x.v, QuoteOf(x.v), TRUE) \o <<QuoteOf(x.v)>>
    [] x.t = "int" -> IntToText(x.v)
    [] x.t = "float" -> FloatToText(x.v)
    [] OTHER -> <<78, 111, 110, 101>>

\* str(args) of the one-element tuple (data,): "(" repr(data) ",)"
StrArgs(data) == <<40>> \o Repr(data) \o <<44, 41>>

\* what redis-py sends for a value: bytes as they are, text as UTF-8, an int
\* or a float as the UTF-8 of its repr
RedisEncode(x) ==
  CASE x.t = "bytes" -> x.v
    [] x.t = "str" -> Utf8Encode(x.v)
    [] OTHER -> Utf8Encode(Repr(x))

\* ------------------------------------------------------------------- keys
\* method.__qualname__ of Cache.store: "Cache.store"
QualName == <<67, 97, 99, 104, 101, 46, 115, 116, 111, 114, 101>>
\* f"{method.__qualname__}:inputs"
InputKey == QualName \o <<58, 105, 110, 112, 117, 116, 115>>
\* f"{method.__qualname__}:outputs"
OutputKey == QualName \o <<58, 111, 117, 116, 112, 117, 116, 115>>
\* mutant: the counter is kept per instance
QualNameOf_PerInstance(i) == QualName \o <<35>> \o IntToText(i)

\* method.__qualname__ inside a call on the i-th Cache: the name of the
\* function, the same for every instance
QualNameOf(i) == QualName

\* mutant: every call uses the same key
Uuid_Fixed(n) == <<117, 49>>

\* str(uuid.uuid4()): the n-th identifier drawn, written "u<n>"; two draws
\* never give the same identifier
Uuid(n) == <<117>> \o IntToText(n)

\* ------------------------------------------------------------------ Redis
\* A database maps keys (byte strings) to a string value or a list value.
RString(b) == [kind |-> "string", v |-> b]
RList(l) == [kind |-> "list", v |-> l]

Put(d, k, x) == [y \in DOMAIN d \cup {k} |-> IF y = k THEN x ELSE d[y]]

\* mutant: the constructor does not flush
RedisFlushdb_Nothing(d) == d

\* FLUSHDB
RedisFlushdb(d) == <<>>

\* SET k b: any old value is replaced
RedisSet(d, k, b) == Put(d, k, RString(b))

\* GET k: nil when absent, WRONGTYPE on a list
RedisGet(d, k) ==
  IF k \notin DOMAIN d THEN [ok |-> TRUE, nil |-> TRUE]
  ELSE IF d[k].kind = "string" THEN [ok |-> TRUE, nil |-> FALSE, v |-> d[k].v]
  ELSE [ok |-> FALSE]

\* mutant: the counter is set to 1 on every call instead of incremented
RedisIncr_SetOne(d, k) == [ok |-> TRUE, db |-> Put(d, k, RString(IntToText(1)))]

\* INCR k: absent counts as 0; the value is kept as decimal text
RedisIncr(d, k) ==
  IF k \notin DOMAIN d THEN [ok |-> TRUE, db |-> Put(d, k, RString(IntToText(1)))]
  ELSE IF d[k].kind = "string" /\ ParseInt(d[k].v).ok
    THEN [ok |-> TRUE,
          db |-> Put(d, k, RString(IntToText(ParseInt(d[k].v).v + 1)))]
  ELSE [ok |-> FALSE]

\* mutant: lpush, the new element goes to the front
RedisRpush_Prepend(d, k, b) ==
  IF k \notin DOMAIN d THEN [ok |-> TRUE, db |-> Put(d, k, RList(<<b>>))]
  ELSE IF d[k].kind = "list"
    THEN [ok |-> TRUE, db |-> Put(d, k, RList(<<b>> \o d[k].v))]
  ELSE [ok |-> FALSE]

\* RPUSH k b: an absent list is created
RedisRpush(d, k, b) ==
  IF k \notin DOMAIN d THEN [ok |-> TRUE, db |-> Put(d, k, RList(<<b>>))]
  ELSE IF d[k].kind = "list"
    THEN [ok |-> TRUE, db |-> Put(d, k, RList(Append(d[k].v, b)))]
  ELSE [ok |-> FALSE]

\* LRANGE k 0 -1
RedisLrange(d, k) ==
  IF k \notin DOMAIN d THEN [ok |-> TRUE, v |-> <<>>]
  ELSE IF d[k].kind = "list" THEN [ok |-> TRUE, v |-> d[k].v]
  ELSE [ok |-> FALSE]

\* ---------------------------------------------------------------- readers
\* mutant: get_str decodes as Latin-1, one code point per byte
Decode_Latin1(fn, b) ==
  CASE fn = "utf8" -> PyStr(b)
    [] fn = "int" ->
         IF ParseInt(b).ok THEN PyInt(ParseInt(b).v) ELSE PyRaise("ValueError")
    [] OTHER -> PyBytes(b)

\* the decoders handed to Cache.get: none, d.decode('utf-8'), int
Decode(fn, b) ==
  CASE fn = "utf8" ->
         IF Utf8Decode(b).ok THEN PyStr(Utf8Decode(b).v)
         ELSE PyRaise("UnicodeDecodeError")
    [] fn = "int" ->
         IF ParseInt(b).ok THEN PyInt(ParseInt(b).v) ELSE PyRaise("ValueError")
    [] OTHER -> PyBytes(b)

\* mutant: "if not data" for "if data is None": an empty value reads as missing
CacheGet_FalsyIsMissing(d, key, fn) ==
  LET data == RedisGet(d, Utf8Encode(key))
  IN IF ~data.ok THEN PyRaise("ResponseError")
     ELSE IF data.nil \/ data.v = <<>> THEN PyNone
     ELSE IF fn # "none" THEN Decode(fn, data.v) ELSE PyBytes(data.v)

\* mutant: no test for None, the decoder is applied to whatever Redis gave
CacheGet_DecodeUnchecked(d, key, fn) ==
  LET data == RedisGet(d, Utf8Encode(key))
  IN IF ~data.ok THEN PyRaise("ResponseError")
     ELSE IF fn # "none"
       THEN (IF data.nil THEN PyRaise("TypeError") ELSE Decode(fn, data.v))
     ELSE IF data.nil THEN PyNone
     ELSE PyBytes(data.v)

\* Cache.get(key, fn)
CacheGet(d, key, fn) ==
  LET data == RedisGet(d, Utf8Encode(key))
  IN IF ~data.ok THEN PyRaise("ResponseError")
     ELSE IF data.nil THEN PyNone
     ELSE IF fn # "none" THEN Decode(fn, data.v) ELSE PyBytes(data.v)

\* Cache.get_str(key)
CacheGetStr(d, key) == CacheGet(d, key, "utf8")

\* mutant: get_int passes no decoder
CacheGetInt_NoDecoder(d, key) == CacheGet(d, key, "none")

\* Cache.get_int(key)
CacheGetInt(d, key) == CacheGet(d, key, "int")

\* ---------------------------------------------------- views of the database
\* the invocation counter of Cache.store, absent read as 0
Counter(d) ==
  IF Utf8Encode(QualName) \in DOMAIN d THEN ParseInt(d[Utf8Encode(QualName)].v).v
  ELSE 0
Inputs(d) == RedisLrange(d, Utf8Encode(InputKey)).v
Outputs(d) == RedisLrange(d, Utf8Encode(OutputKey)).v
MetaKeys == {Utf8Encode(QualName), Utf8Encode(InputKey), Utf8Encode(OutputKey)}
\* the keys of the entries Cache.store wrote
Entries(d) == DOMAIN d \ MetaKeys

\* ----------------------------------------------------------------- replay
\* what a function printed: the lines, in order
Stdout(lines) == [t |-> "stdout", v |-> lines]

\* f"{method_name} was called {calls_int} times:"
HeaderLine(n) ==
  QualName \o <<32, 119, 97, 115, 32, 99, 97, 108, 108, 101, 100, 32>>
    \o IntToText(n) \o <<32, 116, 105, 109, 101, 115, 58>>

\* f"{method_name}(*{inp.decode()}) -> {out.decode()}", on decoded texts
PairLine(inp, out) == QualName \o <<40, 42>> \o inp \o <<41, 32, 45, 62, 32>> \o out

Min(a, b) == IF a <= b THEN a ELSE b

\* mutant: the header reports the number of recorded inputs
ReplayCount_FromInputs(d) == Len(RedisLrange(d, Utf8Encode(InputKey)).v)

\* calls_int of replay: int(calls) if calls else 0, 0 as well when int raises
ReplayCount(d) ==
  LET c == RedisGet(d, Utf8Encode(QualName))
  IN IF c.nil THEN 0
     ELSE IF c.v = <<>> THEN 0
     ELSE IF ParseInt(c.v).ok THEN ParseInt(c.v).v
     ELSE 0

\* replay(cache.store): the header, then one line per pair of zip(inputs,
\* outputs); a Redis error or a decode error is raised
Replay(d) ==
  LET c == RedisGet(d, Utf8Encode(QualName))
      ins == RedisLrange(d, Utf8Encode(InputKey))
      outs == RedisLrange(d, Utf8Encode(OutputKey))
  IN IF ~c.ok \/ ~ins.ok \/ ~outs.ok THEN PyRaise("ResponseError")
     ELSE IF \E j \in 1..Min(Len(ins.v), Len(outs.v)) :
               ~Utf8Decode(ins.v[j]).ok \/ ~Utf8Decode(outs.v[j]).ok
       THEN PyRaise("UnicodeDecodeError")
     ELSE Stdout(<<HeaderLine(ReplayCount(d))>>
                   \o [j \in 1..Min(Len(ins.v), Len(outs.v)) |->
                         PairLine(Utf8Decode(ins.v[j]).v, Utf8Decode(outs.v[j]).v)])

\* ------------------------------------------------------------------ state
\* callers of the facade; a sequential program is the single caller "c1",
\* the second caller is there for calls that overlap
Callers == {"c1", "c2"}
SeqCallers == {"c1"}

\* the data the callers pass to store: a text that is no integer, an integer
Data == {PyStr(<<233, 55>>), PyInt(-12)}

VARIABLES
  db,       \* the Redis database; the _redis of every Cache is a client of it
  ninst,    \* Cache instances constructed so far
  nuuid,    \* identifiers uuid4 has handed out
  pc,       \* per caller: where it stands inside Cache.store
  key,      \* per caller: the local variable key of Cache.store
  op,       \* per caller: the call it is in, or made last
  ret,      \* per caller: what its last call returned or raised
  calls,    \* the store calls ended since the last flush, in order
  nstart,   \* store calls started so far
  nfail,    \* Redis commands that have failed so far
  flushed   \* the keys store returned before the last flush

vars == <<db, ninst, nuuid, pc, key, op, ret, calls, nstart, nfail, flushed>>

\* what a caller sees of the database when it enters store
Snapshot(d) == [nin |-> Len(Inputs(d)), nout |-> Len(Outputs(d)),
                cnt |-> Counter(d), ents |-> Entries(d)]

\* Cache(): the first facade has connected and flushed the database
Init ==
  /\ db = RedisFlushdb(<<>>)
  /\ ninst = 1
  /\ nuuid = 0
  /\ pc = [c \in Callers |-> "idle"]
  /\ key = [c \in Callers |-> <<>>]
  /\ op = [c \in Callers |-> [name |-> "none"]]
  /\ ret = [c \in Callers |-> PyNone]
  /\ calls = <<>>
  /\ nstart = 0
  /\ nfail = 0
  /\ flushed = {}

Idle == \A c \in Callers : pc[c] = "idle"

\* Cache.__init__: a further facade on the same database
NewCache ==
  /\ ninst <= MaxInits
  /\ ninst' = ninst + 1
  /\ db' = RedisFlushdb(db)
  /\ calls' = <<>>
  /\ flushed' = flushed \cup {calls[n].key : n \in {x \in 1..Len(calls) : calls[x].ok}}
  /\ UNCHANGED <<nuuid, pc, key, op, ret, nstart, nfail>>

\* a Redis command of a store call fails: the call ends by raising e
Raise(c, e) ==
  /\ nfail < MaxFails
  /\ nfail' = nfail + 1
  /\ pc' = [pc EXCEPT ![c] = "idle"]
  /\ key' = [key EXCEPT ![c] = <<>>]
  /\ ret' = [ret EXCEPT ![c] = PyRaise(e)]
  /\ calls' = Append(calls, [ok |-> FALSE, at |-> pc[c]])

\* mutant: the decorators are stacked the other way round, the counter is
\* incremented before the input is recorded
PushInput_CountFirst(c, i, data) ==
  /\ pc[c] = "idle"
  /\ nstart < MaxCalls
  /\ nstart' = nstart + 1
  /\ db' = RedisIncr(db, Utf8Encode(QualNameOf(i))).db
  /\ op' = [op EXCEPT ![c] = [name |-> "store", inst |-> i, data |-> data,
                              pre |-> Snapshot(db)]]
  /\ pc' = [pc EXCEPT ![c] = "incr"]
  /\ ret' = [ret EXCEPT ![c] = PyNone]
  /\ UNCHANGED <<ninst, nuuid, key, calls, nfail, flushed>>

\* call_history.wrapper, up to the first rpush, of a call store(data) on the
\* i-th Cache
PushInput(c, i, data) ==
  /\ pc[c] = "idle"
  /\ nstart < MaxCalls
  /\ nstart' = nstart + 1
  /\ LET r == RedisRpush(db, Utf8Encode(InputKey), Utf8Encode(StrArgs(data)))
     IN /\ r.ok
        /\ db' = r.db
  /\ op' = [op EXCEPT ![c] = [name |-> "store", inst |-> i, data |-> data,
                              pre |-> Snapshot(db)]]
  /\ pc' = [pc EXCEPT ![c] = "incr"]
  /\ ret' = [ret EXCEPT ![c] = PyNone]
  /\ UNCHANGED <<ninst, nuuid, key, calls, nfail, flushed>>

\* the first rpush fails: nothing is recorded
PushInputFail(c, i, data) ==
  /\ pc[c] = "idle"
  /\ nstart < MaxCalls
  /\ nstart' = nstart + 1
  /\ op' = [op EXCEPT ![c] = [name |-> "store", inst |-> i, data |-> data,
                              pre |-> Snapshot(db)]]
  /\ nfail < MaxFails
  /\ nfail' = nfail + 1
  /\ pc' = [pc EXCEPT ![c] = "idle"]
  /\ ret' = [ret EXCEPT ![c] = PyRaise("ConnectionError")]
  /\ calls' = Append(calls, [ok |-> FALSE, at |-> "push_in"])
  /\ UNCHANGED <<db, ninst, nuuid, key, flushed>>

\* mutant: the counter is written from the value read when the call began
\* (read, add one, set) instead of by INCR
Incr_StaleRead(c) ==
  /\ pc[c] = "incr"
  /\ db' = Put(db, Utf8Encode(QualName), RString(IntToText(op[c].pre.cnt + 1)))
  /\ pc' = [pc EXCEPT ![c] = "set"]
  /\ UNCHANGED <<ninst, nuuid, key, op, ret, calls, nstart, nfail, flushed>>

\* count_calls.wrapper: incr of the counter
Incr(c) ==
  /\ pc[c] = "incr"
  /\ LET r == RedisIncr(db, Utf8Encode(QualNameOf(op[c].inst)))
     IN /\ r.ok
        /\ db' = r.db
  /\ pc' = [pc EXCEPT ![c] = "set"]
  /\ UNCHANGED <<ninst, nuuid, key, op, ret, calls, nstart, nfail, flushed>>

IncrFail(c) ==
  /\ pc[c] = "incr"
  /\ Raise(c, "ConnectionError")
  /\ UNCHANGED <<db, ninst, nuuid, op, nstart, flushed>>

\* Cache.store: a fresh key, and the value set under it
Set(c) ==
  /\ pc[c] = "set"
  /\ nuuid' = nuuid + 1
  /\ key' = [key EXCEPT ![c] = Uuid(nuuid + 1)]
  /\ db' = RedisSet(db, Utf8Encode(Uuid(nuuid + 1)), RedisEncode(op[c].data))
  /\ pc' = [pc EXCEPT ![c] = "push_out"]
  /\ UNCHANGED <<ninst, op, ret, calls, nstart, nfail, flushed>>

\* mutant: the recorder appends an output for the failed call as well
SetFail_OutputRecorded(c) ==
  /\ pc[c] = "set"
  /\ nuuid' = nuuid + 1
  /\ Raise(c, "ConnectionError")
  /\ db' = RedisRpush(db, Utf8Encode(OutputKey), Utf8Encode(Repr(PyNone))).db
  /\ UNCHANGED <<ninst, op, nstart, flushed>>

\* mutant: the counter is taken back when the write fails
SetFail_RolledBack(c) ==
  /\ pc[c] = "set"
  /\ nuuid' = nuuid + 1
  /\ Raise(c, "ConnectionError")
  /\ db' = Put(db, Utf8Encode(QualName), RString(IntToText(Counter(db) - 1)))
  /\ UNCHANGED <<ninst, op, nstart, flushed>>

\* the set fails: the key was drawn, nothing was written
SetFail(c) ==
  /\ pc[c] = "set"
  /\ nuuid' = nuuid + 1
  /\ Raise(c, "ConnectionError")
  /\ UNCHANGED <<db, ninst, op, nstart, flushed>>

\* mutant: the output is pushed to the inputs list
PushOutput_ToInputs(c) ==
  /\ pc[c] = "push_out"
  /\ db' = RedisRpush(db, Utf8Encode(InputKey), Utf8Encode(key[c])).db
  /\ pc' = [pc EXCEPT ![c] = "idle"]
  /\ key' = [key EXCEPT ![c] = <<>>]
  /\ ret' = [ret EXCEPT ![c] = PyStr(key[c])]
  /\ calls' = Append(calls, [ok |-> TRUE, inst |-> op[c].inst,
                             data |-> op[c].data, key |-> key[c]])
  /\ UNCHANGED <<ninst, nuuid, op, nstart, nfail, flushed>>

\* call_history.wrapper, after the method returned: rpush of str(result)
PushOutput(c) ==
  /\ pc[c] = "push_out"
  /\ LET r == RedisRpush(db, Utf8Encode(OutputKey), Utf8Encode(key[c]))
     IN /\ r.ok
        /\ db' = r.db
  /\ pc' = [pc EXCEPT ![c] = "idle"]
  /\ key' = [key EXCEPT ![c] = <<>>]
  /\ ret' = [ret EXCEPT ![c] = PyStr(key[c])]
  /\ calls' = Append(calls, [ok |-> TRUE, inst |-> op[c].inst,
                             data |-> op[c].data, key |-> key[c]])
  /\ UNCHANGED <<ninst, nuuid, op, nstart, nfail, flushed>>

PushOutputFail(c) ==
  /\ pc[c] = "push_out"
  /\ Raise(c, "ConnectionError")
  /\ UNCHANGED <<db, ninst, nuuid, op, nstart, flushed>>

\* the three readers of the facade
Readers == {"get", "get_str", "get_int"}

\* the keys a caller may ask for: every identifier uuid4 can have drawn, one
\* it has not, and the three keys of the decorators
AskKeys == {Uuid(n) : n \in 1..(MaxCalls + 1)} \cup {QualName, InputKey, OutputKey}

\* mutant: the readers are decorated with count_calls as well
Get_Counted(c, m, k) ==
  /\ pc[c] = "idle"
  /\ ret' = [ret EXCEPT ![c] = CASE m = "get_str" -> CacheGetStr(db, k)
                                 [] m = "get_int" -> CacheGetInt(db, k)
                                 [] OTHER -> CacheGet(db, k, "none")]
  /\ op' = [op EXCEPT ![c] = [name |-> m, key |-> k, epoch |-> ninst,
                              hit |-> Utf8Encode(k) \in DOMAIN db]]
  /\ db' = RedisIncr(db, Utf8Encode(QualName)).db
  /\ UNCHANGED <<ninst, nuuid, pc, key, calls, nstart, nfail, flushed>>

\* Cache.get / Cache.get_str / Cache.get_int
Get(c, m, k) ==
  /\ pc[c] = "idle"
  /\ ret' = [ret EXCEPT ![c] = CASE m = "get_str" -> CacheGetStr(db, k)
                                 [] m = "get_int" -> CacheGetInt(db, k)
                                 [] OTHER -> CacheGet(db, k, "none")]
  /\ op' = [op EXCEPT ![c] = [name |-> m, key |-> k, epoch |-> ninst,
                              hit |-> Utf8Encode(k) \in DOMAIN db]]
  /\ UNCHANGED <<db, ninst, nuuid, pc, key, calls, nstart, nfail, flushed>>

\* replay(cache.store)
ReplayCall(c) ==
  /\ pc[c] = "idle"
  /\ ret' = [ret EXCEPT ![c] = Replay(db)]
  /\ op' = [op EXCEPT ![c] = [name |-> "replay", epoch |-> ninst]]
  /\ UNCHANGED <<db, ninst, nuuid, pc, key, calls, nstart, nfail, flushed>>

\* one caller, one call at a time; any Redis command of store may fail
Next ==
  \/ Idle /\ NewCache
  \/ \E c \in SeqCallers, i \in 1..ninst, data \in Data : PushInput(c, i, data)
  \/ \E c \in SeqCallers, i \in 1..ninst, data \in Data : PushInputFail(c, i, data)
  \/ \E c \in SeqCallers : Incr(c)
  \/ \E c \in SeqCallers : IncrFail(c)
  \/ \E c \in SeqCallers : Set(c)
  \/ \E c \in SeqCallers : SetFail(c)
  \/ \E c \in SeqCallers : PushOutput(c)
  \/ \E c \in SeqCallers : PushOutputFail(c)
  \/ \E c \in SeqCallers, m \in Readers, k \in AskKeys :
        Get(c, m, k)
  \/ \E c \in SeqCallers : ReplayCall(c)

Spec == Init /\ [][Next]_vars

\* ------------------------------------------------------- concurrent callers
\* several callers inside store on one facade at once: every Redis command is
\* one atomic step, the commands of different calls interleave freely, and
\* any command may fail; no facade is constructed meanwhile
NextConcurrent ==
  \/ \E c \in Callers, i \in 1..ninst, data \in Data : PushInput(c, i, data)
  \/ \E c \in Callers, i \in 1..ninst, data \in Data : PushInputFail(c, i, data)
  \/ \E c \in Callers : Incr(c)
  \/ \E c \in Callers : IncrFail(c)
  \/ \E c \in Callers : Set(c)
  \/ \E c \in Callers : SetFail(c)
  \/ \E c \in Callers : PushOutput(c)
  \/ \E c \in Callers : PushOutputFail(c)

SpecConcurrent == Init /\ [][NextConcurrent]_vars

\* ------------------------------------------------------------- round trips
\* every sequence over S of length at most n
RECURSIVE SeqsUpTo(_, _)
SeqsUpTo(S, n) ==
  IF n = 0 THEN {<<>>}
  ELSE SeqsUpTo(S, n - 1)
         \cup {Append(s, x) : s \in {t \in SeqsUpTo(S, n - 1) : Len(t) = n - 1}, x \in S}

\* "-", "7", U+00E9 (two bytes in UTF-8), U+20AC (three bytes)
TextAlphabet == {45, 55, 233, 8364}
\* "-", "7", and the two bytes of U+00E9, each of them no UTF-8 on its own
ByteAlphabet == {45, 55, 169, 195}

\* the supported kinds of data: text, bytes, int, float; among the texts,
\* str(n) of every integer
RoundTripData ==
  {PyStr(s) : s \in SeqsUpTo(TextAlphabet, MaxLen)}
    \cup {PyStr(IntToText(n)) : n \in (0 - MaxInt)..MaxInt}
    \cup {PyBytes(b) : b \in SeqsUpTo(ByteAlphabet, MaxLen)}
    \cup {PyInt(n) : n \in (0 - MaxInt)..MaxInt}
    \cup {PyFloat(h) : h \in (0 - MaxHalves)..MaxHalves}

\* the first store call of a run, on any supported data
FirstStore(c, data) == nstart = 0 /\ PushInput(c, ninst, data)

\* one store of any supported data, then reads
NextRoundTrip ==
  \/ \E c \in SeqCallers, data \in RoundTripData : FirstStore(c, data)
  \/ \E c \in SeqCallers : Incr(c)
  \/ \E c \in SeqCallers : Set(c)
  \/ \E c \in SeqCallers : PushOutput(c)
  \/ \E c \in SeqCallers, m \in Readers, k \in AskKeys :
        Get(c, m, k)

SpecRoundTrip == Init /\ [][NextRoundTrip]_vars

\* ================================================================== claims
\* Python's == on Python values, by which the claims compare results: equal types compare by value, an int
\* equals a float of the same number, anything else is unequal
PyEq(a, b) ==
  CASE a.t = b.t /\ a.t = "None" -> TRUE
    [] a.t = b.t /\ a.t # "None" -> a.v = b.v
    [] a.t = "int" /\ b.t = "float" -> 2 * a.v = b.v
    [] a.t = "float" /\ b.t = "int" -> a.v = 2 * b.v
    [] OTHER -> FALSE

\* C1 as stated: for every supported value v (text, bytes, int, float),
\* get with no decoder on the key store(v) returned gives a value equal to v.
C1_RoundTripIdentity ==
  \A c \in Callers : \A n \in 1..Len(calls) :
    (op[c].name = "get" /\ op[c].hit /\ calls[n].ok /\ calls[n].key = op[c].key)
      => PyEq(ret[c], calls[n].data)

\* C1 as amended: get with no decoder on the key store(v) returned gives the
\* bytes Redis holds for v (v itself for bytes, the UTF-8 of a text, the
\* UTF-8 of the repr of an int or a float), which equals v exactly when v is
\* a byte string.
C1_RawBytes ==
  \A c \in Callers : \A n \in 1..Len(calls) :
    (op[c].name = "get" /\ op[c].hit /\ calls[n].ok /\ calls[n].key = op[c].key)
      => /\ ret[c] = PyBytes(RedisEncode(calls[n].data))
         /\ PyEq(ret[c], calls[n].data) <=> calls[n].data.t = "bytes"

C1_Witness ==
  \E c \in Callers :
    /\ op[c].name = "get" /\ op[c].hit
    /\ calls # <<>> /\ calls[1].ok /\ calls[1].key = op[c].key
    /\ calls[1].data = PyStr(<<233>>)
    /\ ret[c] = PyBytes(<<195, 169>>)

\* C2 as stated: get, get_str or get_int on a key that store never returned
\* gives the not-found result.
C2_NeverReturnedNotFound ==
  \A c \in Callers :
    (/\ op[c].name \in Readers
     /\ op[c].key \notin flushed
     /\ \A n \in 1..Len(calls) : calls[n].ok => calls[n].key # op[c].key)
      => ret[c] = PyNone

\* C2 as amended: get, get_str or get_int on a key that holds nothing in the
\* database - in particular on every identifier uuid4 has not drawn - gives
\* the not-found result: nothing is raised and the decoder is not applied.
C2_AbsentNotFound ==
  \A c \in Callers :
    (/\ op[c].name \in Readers
     /\ \/ ~op[c].hit
        \/ op[c].key \in {Uuid(n) : n \in (nuuid + 1)..(MaxCalls + 1)})
      => ret[c] = PyNone

C2_Witness ==
  \E c \in Callers :
    /\ op[c].name = "get_int" /\ ~op[c].hit
    /\ Entries(db) # {}
    /\ ret[c] = PyNone

\* C3: between calls, when the k store calls made since the facade was
\* constructed all succeeded, the counter under "Cache.store" is k (absent,
\* read as 0, when k = 0).
C3_CounterCountsCalls ==
  (Idle /\ \A n \in 1..Len(calls) : calls[n].ok) => Counter(db) = Len(calls)

C3_Witness ==
  /\ Idle /\ Len(calls) = 2 /\ calls[1].ok /\ calls[2].ok
  /\ Counter(db) = 2

\* C4: after k successful store calls the inputs and the outputs list both
\* have k elements, the i-th input is str(args) of the i-th call and the
\* i-th output is the key the i-th call returned.
C4_HistoryInCallOrder ==
  (Idle /\ \A n \in 1..Len(calls) : calls[n].ok) =>
    /\ Len(Inputs(db)) = Len(calls)
    /\ Len(Outputs(db)) = Len(calls)
    /\ \A n \in 1..Len(calls) :
         /\ Inputs(db)[n] = Utf8Encode(StrArgs(calls[n].data))
         /\ Outputs(db)[n] = Utf8Encode(calls[n].key)

C4_Witness ==
  /\ Idle /\ Len(calls) = 2 /\ calls[1].ok /\ calls[2].ok
  /\ calls[1].data # calls[2].data
  /\ Len(Inputs(db)) = 2 /\ Len(Outputs(db)) = 2

\* C5: the inputs list and the outputs list of Cache.store have the same
\* length.  Stated for the states between two calls, where a sequential
\* caller can look; the claim makes it for every state.
C5_LengthsEqual ==
  Idle => Len(Inputs(db)) = Len(Outputs(db))

\* C6: a key that store returned before a new facade was constructed reads
\* as not found afterwards, whichever reader is used.
C6_FlushedKeyNotFound ==
  \A c \in Callers :
    (op[c].name \in Readers /\ op[c].epoch = ninst /\ op[c].key \in flushed)
      => ret[c] = PyNone

C6_Witness ==
  \E c \in Callers :
    /\ op[c].name = "get" /\ op[c].epoch = ninst /\ op[c].key \in flushed
    /\ Entries(db) # {}
    /\ ret[c] = PyNone

\* C7: get_str on the key store(s) returned gives the text s back.
C7_GetStrRoundTrip ==
  \A c \in Callers : \A n \in 1..Len(calls) :
    (/\ op[c].name = "get_str" /\ op[c].hit
     /\ calls[n].ok /\ calls[n].key = op[c].key
     /\ calls[n].data.t = "str")
      => ret[c] = PyStr(calls[n].data.v)

C7_Witness ==
  \E c \in Callers :
    /\ op[c].name = "get_str" /\ op[c].hit
    /\ calls # <<>> /\ calls[1].ok /\ calls[1].key = op[c].key
    /\ calls[1].data = PyStr(<<8364, 233>>)
    /\ ret[c] = PyStr(<<8364, 233>>)

\* C8: get_int on the key store(str(n)) returned, and on the key store(n)
\* returned, gives the integer n, for negative n, zero and positive n.
C8_GetIntRoundTrip ==
  \A c \in Callers : \A n \in 1..Len(calls) : \A k \in (0 - MaxInt)..MaxInt :
    (/\ op[c].name = "get_int" /\ op[c].hit
     /\ calls[n].ok /\ calls[n].key = op[c].key
     /\ calls[n].data \in {PyInt(k), PyStr(IntToText(k))})
      => ret[c] = PyInt(k)

C8_Witness ==
  \E c \in Callers :
    /\ op[c].name = "get_int" /\ op[c].hit
    /\ calls # <<>> /\ calls[1].ok /\ calls[1].key = op[c].key
    /\ calls[1].data = PyStr(<<45, 49, 50>>)
    /\ ret[c] = PyInt(-12)

\* C9: when the set of a store call fails, the inputs list is one longer
\* than when the call began and the outputs list is as long as it was, so
\* the two lengths differ; and no later call repairs it: between calls the
\* inputs list is longer than the outputs list by the number of calls that
\* failed after their input was recorded.
C9_FailedWriteMismatch ==
  /\ \A c \in Callers :
       (/\ pc[c] = "idle" /\ op[c].name = "store"
        /\ calls # <<>> /\ ~calls[Len(calls)].ok /\ calls[Len(calls)].at = "set")
         => /\ Len(Inputs(db)) = op[c].pre.nin + 1
            /\ Len(Outputs(db)) = op[c].pre.nout
            /\ Len(Inputs(db)) # Len(Outputs(db))
  /\ Idle =>
       Len(Inputs(db)) - Len(Outputs(db))
         = Cardinality({n \in 1..Len(calls) : ~calls[n].ok /\ calls[n].at # "push_in"})

\* a set failed, a later call succeeded, and the lists still differ
C9_Witness ==
  /\ Idle /\ Len(calls) = 2
  /\ ~calls[1].ok /\ calls[1].at = "set" /\ calls[2].ok
  /\ Len(Inputs(db)) = 2 /\ Len(Outputs(db)) = 1

\* C10: the counter is incremented before the set and stays incremented when
\* the set fails: after such a call the counter is one more than when the
\* call began, no entry was added and the caller got the error.
C10_CounterNotRolledBack ==
  \A c \in Callers :
    /\ pc[c] = "set" =>
         Counter(db) = op[c].pre.cnt + 1 /\ Entries(db) = op[c].pre.ents
    /\ (/\ pc[c] = "idle" /\ op[c].name = "store"
        /\ calls # <<>> /\ ~calls[Len(calls)].ok /\ calls[Len(calls)].at = "set")
         => /\ Counter(db) = op[c].pre.cnt + 1
            /\ Entries(db) = op[c].pre.ents
            /\ ret[c] = PyRaise("ConnectionError")

\* a set failed after an earlier call had succeeded
C10_Witness ==
  \E c \in Callers :
    /\ pc[c] = "idle" /\ op[c].name = "store"
    /\ Len(calls) = 2 /\ calls[1].ok
    /\ ~calls[2].ok /\ calls[2].at = "set"
    /\ Counter(db) = 2 /\ Cardinality(Entries(db)) = 1
    /\ ret[c].t = "raise"

\* C11: inside one store call the four Redis commands run in this order:
\* rpush to the inputs list, incr of the counter, set under the fresh key,
\* rpush to the outputs list.  At each point of the call exactly the commands
\* before it have taken effect on what the call found when it began.
C11_CommandOrder ==
  \A c \in Callers :
    /\ pc[c] = "incr" =>
         Snapshot(db) = [nin |-> op[c].pre.nin + 1, nout |-> op[c].pre.nout,
                         cnt |-> op[c].pre.cnt, ents |-> op[c].pre.ents]
    /\ pc[c] = "set" =>
         Snapshot(db) = [nin |-> op[c].pre.nin + 1, nout |-> op[c].pre.nout,
                         cnt |-> op[c].pre.cnt + 1, ents |-> op[c].pre.ents]
    /\ pc[c] = "push_out" =>
         /\ Utf8Encode(key[c]) \notin op[c].pre.ents
         /\ Snapshot(db) = [nin |-> op[c].pre.nin + 1, nout |-> op[c].pre.nout,
                            cnt |-> op[c].pre.cnt + 1,
                            ents |-> op[c].pre.ents \cup {Utf8Encode(key[c])}]
    /\ (/\ pc[c] = "idle" /\ op[c].name = "store"
        /\ calls # <<>> /\ calls[Len(calls)].ok)
         => Snapshot(db) = [nin |-> op[c].pre.nin + 1, nout |-> op[c].pre.nout + 1,
                            cnt |-> op[c].pre.cnt + 1,
                            ents |-> op[c].pre.ents \cup {Utf8Encode(ret[c].v)}]

\* the second call of a run stands between its set and its output rpush
C11_Witness ==
  \E c \in Callers :
    /\ pc[c] = "push_out"
    /\ op[c].pre.cnt = 1 /\ Counter(db) = 2
    /\ Len(Inputs(db)) = 2 /\ Len(Outputs(db)) = 1

\* C13: replay prints a header with the stored counter (0 when absent) and
\* then min(len(inputs), len(outputs)) lines, the j-th of them made of the
\* j-th input and the j-th output; when the k calls since the facade was
\* constructed all succeeded, that is a header with k and k lines, the j-th
\* showing str(args) and the returned key of the j-th call.
C13_ReplayTranscript ==
  \A c \in Callers :
    (op[c].name = "replay" /\ op[c].epoch = ninst) =>
      /\ ret[c].t = "stdout"
      /\ Len(ret[c].v) = 1 + Min(Len(Inputs(db)), Len(Outputs(db)))
      /\ ret[c].v[1] = HeaderLine(Counter(db))
      /\ \A j \in 1..(Len(ret[c].v) - 1) :
           Utf8Encode(ret[c].v[j + 1])
             = Utf8Encode(QualName \o <<40, 42>>) \o Inputs(db)[j]
                 \o <<41, 32, 45, 62, 32>> \o Outputs(db)[j]
      /\ (\A n \in 1..Len(calls) : calls[n].ok) =>
           /\ Len(ret[c].v) = 1 + Len(calls)
           /\ ret[c].v[1] = HeaderLine(Len(calls))
           /\ \A n \in 1..Len(calls) :
                ret[c].v[n + 1] = PairLine(StrArgs(calls[n].data), calls[n].key)

\* replay after two successful calls
C13_Witness ==
  \E c \in Callers :
    /\ op[c].name = "replay" /\ op[c].epoch = ninst
    /\ Len(calls) = 2 /\ calls[1].ok /\ calls[2].ok
    /\ ret[c].t = "stdout" /\ Len(ret[c].v) = 3
    /\ ret[c].v[1] = HeaderLine(2)

\* C14: the set of a store call adds exactly one entry, under a key that
\* held nothing before; every other step that is not a facade construction
\* leaves the set of entries as it is; and no step but a facade construction
\* removes an entry or changes its value.
C14_StoreAddsOneEntry ==
  [][ninst' = ninst =>
       /\ \A k \in Entries(db) : k \in DOMAIN db' /\ db'[k] = db[k]
       /\ IF \E c \in Callers : pc[c] = "set" /\ pc'[c] = "push_out"
          THEN \E k \in Entries(db') :
                 k \notin DOMAIN db /\ Entries(db') = Entries(db) \cup {k}
          ELSE Entries(db') = Entries(db)]_vars

\* two calls have stored two different values under two keys
C14_Witness ==
  /\ Idle /\ Len(calls) = 2 /\ calls[1].ok /\ calls[2].ok
  /\ Cardinality(Entries(db)) = 2
  /\ db[Utf8Encode(calls[1].key)] # db[Utf8Encode(calls[2].key)]

\* C15: a call of get, get_str or get_int leaves the database as it is: the
\* counter, the inputs list, the outputs list and every entry.
C15_ReadersChangeNothing ==
  [][(\E c \in Callers :
        /\ op'[c].name \in Readers
        /\ op'[c] # op[c] \/ ret'[c] # ret[c])
      => db' = db /\ calls' = calls]_vars

\* get_int has read the counter key after two calls, and the counter is 2
C15_Witness ==
  \E c \in Callers :
    /\ op[c].name = "get_int" /\ op[c].key = QualName /\ op[c].epoch = ninst
    /\ ret[c] = PyInt(2)
    /\ Counter(db) = 2 /\ Len(Inputs(db)) = 2 /\ Len(Outputs(db)) = 2

\* C19 as stated: the counter and the two lists are kept under the name of
\* the method, shared by every Cache on the database; right after a Cache is
\* constructed the counter is absent and both lists are empty; and between
\* calls the counter is the number of successful store calls made, on any
\* instance, since the last construction.
C19_CounterCountsSuccesses ==
  /\ (Idle /\ calls = <<>>) => DOMAIN db \cap MetaKeys = {}
  /\ Idle => Counter(db) = Cardinality({n \in 1..Len(calls) : calls[n].ok})

\* C19 as amended: the same, except that between calls the counter is the
\* number of store calls since the last construction whose incr ran: the
\* successful calls and the calls that failed at the set or at the output
\* rpush.
C19_CounterCountsIncrements ==
  /\ (Idle /\ calls = <<>>) => DOMAIN db \cap MetaKeys = {}
  /\ Idle => Counter(db)
               = Cardinality({n \in 1..Len(calls) :
                                calls[n].ok \/ calls[n].at \in {"set", "push_out"}})

\* after a second Cache was constructed, one call on each instance
C19_Witness ==
  /\ Idle /\ ninst = 2
  /\ Len(calls) = 2 /\ calls[1].ok /\ calls[2].ok
  /\ calls[1].inst # calls[2].inst
  /\ Counter(db) = 2 /\ Len(Inputs(db)) = 2 /\ Len(Outputs(db)) = 2

\* C12: with several callers inside store at once the lengths of the two
\* lists differ while calls are in progress, and the counter is ahead of the
\* completed pairs: the inputs list is longer than the outputs list by the
\* calls in progress (plus the calls that failed after their input), the
\* counter is ahead of the outputs list by the calls that are past their
\* incr (plus the calls that failed after it).
C12_TransientDivergence ==
  /\ Len(Inputs(db)) - Len(Outputs(db))
       = Cardinality({c \in Callers : pc[c] # "idle"})
           + Cardinality({n \in 1..Len(calls) :
                            ~calls[n].ok /\ calls[n].at # "push_in"})
  /\ Counter(db) - Len(Outputs(db))
       = Cardinality({c \in Callers : pc[c] \in {"set", "push_out"}})
           + Cardinality({n \in 1..Len(calls) :
                            ~calls[n].ok /\ calls[n].at \in {"set", "push_out"}})

\* two calls in progress, nothing failed: two inputs, no output, and the
\* counter advanced for a call that has no output yet
C12_Witness ==
  /\ nfail = 0 /\ calls = <<>>
  /\ pc["c1"] = "set" /\ pc["c2"] = "incr"
  /\ Len(Inputs(db)) = 2 /\ Len(Outputs(db)) = 0
  /\ Counter(db) = 1

\* C16: on one facade, for callers that overlap and commands that may fail,
\* len(outputs) <= number of entries <= counter <= len(inputs).
C16_CountsOrdered ==
  /\ Len(Outputs(db)) <= Cardinality(Entries(db))
  /\ Cardinality(Entries(db)) <= Counter(db)
  /\ Counter(db) <= Len(Inputs(db))

\* the first three numbers all differ: an entry is written whose output is
\* not (yet) recorded, and another call is counted but has not written
C16_Witness ==
  /\ Len(Outputs(db)) < Cardinality(Entries(db))
  /\ Cardinality(Entries(db)) < Counter(db)
  /\ \E c \in Callers : pc[c] = "set"

\* C17: when the calls of overlapping callers have all ended successfully,
\* the counter, the number of entries and the lengths of both lists are the
\* number of calls.
C17_NothingLost ==
  (Idle /\ \A n \in 1..Len(calls) : calls[n].ok) =>
    /\ Counter(db) = Len(calls)
    /\ Cardinality(Entries(db)) = Len(calls)
    /\ Len(Inputs(db)) = Len(calls)
    /\ Len(Outputs(db)) = Len(calls)

\* two calls that overlapped: the one that ended last had recorded its input
\* first
C17_Witness ==
  /\ Idle /\ Len(calls) = 2 /\ calls[1].ok /\ calls[2].ok
  /\ calls[1].data # calls[2].data
  /\ Inputs(db)[1] = Utf8Encode(StrArgs(calls[2].data))
  /\ Counter(db) = 2

\* C18: once all calls of the overlapping callers have ended successfully,
\* the i-th input and the i-th output come from the same call: some call
\* had that argument and returned that key.
C18_PairsFromOneCall ==
  (Idle /\ \A n \in 1..Len(calls) : calls[n].ok) =>
    \A i \in 1..Min(Len(Inputs(db)), Len(Outputs(db))) :
      \E n \in 1..Len(calls) :
        /\ Inputs(db)[i] = Utf8Encode(StrArgs(calls[n].data))
        /\ Outputs(db)[i] = Utf8Encode(calls[n].key)
====
